---- MODULE Spec2Model ----
(***************************************************************************)
(* sosw: the task queue and lease manager (sosw/managers/task.py) with its *)
(* orchestrators, workers and the scavenger sweep.                         *)
(*                                                                         *)
(* The hot table is a function from the task ids that have a row to the    *)
(* row; a DynamoDB attribute that was never written is a field the row     *)
(* does not have (attribute_exists f  ==  f \in DOMAIN row).               *)
(***************************************************************************)
EXTENDS Integers, Sequences, FiniteSets, TLC

VARIABLES now, ecology, hot, archive, labs, pc, call, outcome, skipped,
          worker_calls, leases, scav_pc, scav_labs, scav_left, scav_todo, ticks,
          calls, scav_calls, s3, local, sched_pc, sched_call, created

vars == <<now, ecology, hot, archive, labs, pc, call, outcome, skipped,
          worker_calls, leases, scav_pc, scav_labs, scav_left, scav_todo, ticks,
          calls, scav_calls, s3, local, sched_pc, sched_call, created>>

(***************************************************************************)
(* Bounds of the model.                                                    *)
(***************************************************************************)
MaxTicks == 3
MaxCalls == 1
MaxDelay == 1
\* Rows of the remote queue file.
MaxRows == 2

(***************************************************************************)
(* Configuration.                                                          *)
(***************************************************************************)
greenfield_invocation_delta == 31557600
max_attempts == 3
min_health_for_retry == 1
\* Labourer.duration and Labourer.cooldown of the configured labourers.
duration == 300
cooldown == 60

Labourers == {"w1", "w2"}
LabourerOrder == <<"w1", "w2">>
Tasks == {"t1", "t2", "t3"}
Orchestrators == {"o1", "o2"}
\* The labourer each task was created for.
OwnerOf(t) == IF t = "t3" THEN "w2" ELSE "w1"
\* The tasks the producer has created when the model starts, with their
\* greenfields: two distinct values or a tie in the queue of one labourer, or
\* one task for each labourer.
InitGreenfields == {[t1 |-> 100, t2 |-> 50], [t1 |-> 50, t2 |-> 50], [t1 |-> 50, t3 |-> 0]}
\* What the ecology client reports: the health of the labourers and the
\* average duration of their tasks.
Ecologies ==
    {[health |-> [l \in Labourers |-> h[1]], average_duration |-> h[2]] :
        h \in {<<1, 60>>, <<1, 300>>, <<0, 60>>}}
\* The instants of the wall clock at which the processes act: a start, less
\* than duration + cooldown later, more than duration + cooldown later, more
\* than the invocation horizon later, and on.
Instants == <<700, 1000, 1061, 31558601, 31558962, 63116202, 63116563>>

NoTask == [task_id |-> "none"]

(***************************************************************************)
(* Store capability (sosw.components.dynamo_db).                           *)
(***************************************************************************)
\* update(): the named attributes are written, the others kept.
SetAttrs(row, upd) ==
    [f \in (DOMAIN row) \cup (DOMAIN upd) |->
        IF f \in DOMAIN upd THEN upd[f] ELSE row[f]]

\* st_between_ / en_between_ keys of get_by_query.
Between(x, st, en) == st <= x /\ x < en

\* The rows of the greenfield index under one labourer_id.
IndexRows(table, l) == {t \in DOMAIN table : table[t].labourer_id = l}

IsAscending(table, s) ==
    \A i \in 1..(Len(s) - 1) : table[s[i]].greenfield <= table[s[i + 1]].greenfield

\* A range query returns its rows in ascending order of the range key.
RECURSIVE SortAscending(_, _)
SortAscending(table, S) ==
    IF S = {}
    THEN <<>>
    ELSE LET first == CHOOSE t \in S :
                        \A u \in S : table[t].greenfield <= table[u].greenfield
         IN  <<first>> \o SortAscending(table, S \ {first})

SeqRange(s) == {s[i] : i \in 1..Len(s)}

\* max_items of get_by_query.
Take(s, n) == SubSeq(s, 1, IF n < Len(s) THEN n ELSE Len(s))

(***************************************************************************)
(* TaskManager.register_labourers                                          *)
(***************************************************************************)
\* Mutant: the expiry boundary is taken back from start instead of invoked.
Labourer_expired_from_start(l, start, eco) ==
    LET invoked == start + greenfield_invocation_delta
        expired == start - (duration + cooldown)
    IN  [id |-> l,
         start |-> start,
         invoked |-> invoked,
         expired |-> expired,
         health |-> eco.health[l],
         max_attempts |-> max_attempts,
         min_health_for_retry |-> min_health_for_retry,
         average_duration |-> eco.average_duration]

\* Mutant: the expiry boundary leaves the cooldown out.
Labourer_without_cooldown(l, start, eco) ==
    LET invoked == start + greenfield_invocation_delta
        expired == invoked - duration
    IN  [id |-> l,
         start |-> start,
         invoked |-> invoked,
         expired |-> expired,
         health |-> eco.health[l],
         max_attempts |-> max_attempts,
         min_health_for_retry |-> min_health_for_retry,
         average_duration |-> eco.average_duration]

Labourer(l, start, eco) ==
    LET invoked == start + greenfield_invocation_delta
        expired == invoked - (duration + cooldown)
    IN  [id |-> l,
         start |-> start,
         invoked |-> invoked,
         expired |-> expired,
         health |-> eco.health[l],
         max_attempts |-> max_attempts,
         min_health_for_retry |-> min_health_for_retry,
         average_duration |-> eco.average_duration]

register_labourers(time, eco) == [l \in Labourers |-> Labourer(l, time, eco)]

(***************************************************************************)
(* Queries of TaskManager.                                                 *)
(***************************************************************************)
get_task_by_id(table, task_id) ==
    IF task_id \in DOMAIN table THEN table[task_id] ELSE NoTask

\* Mutant: the query is sent without max_items.
get_next_for_labourer_unlimited(table, labourer, cnt) ==
    SortAscending(table,
        {t \in IndexRows(table, labourer.id) :
            table[t].greenfield < labourer.start})

get_next_for_labourer(table, labourer, cnt) ==
    Take(SortAscending(table,
            {t \in IndexRows(table, labourer.id) :
                table[t].greenfield < labourer.start}),
         cnt)

get_invoked_tasks_for_labourer(table, labourer, closed) ==
    {t \in IndexRows(table, labourer.id) :
        /\ table[t].greenfield >= labourer.invoked
        /\ (closed = "true" => "closed" \in DOMAIN table[t])
        /\ (closed = "false" => "closed" \notin DOMAIN table[t])}

get_running_tasks_for_labourer(table, labourer) ==
    {t \in IndexRows(table, labourer.id) :
        /\ Between(table[t].greenfield, labourer.expired, labourer.invoked)
        /\ "closed" \notin DOMAIN table[t]}

get_closed_tasks_for_labourer(table, labourer) ==
    get_invoked_tasks_for_labourer(table, labourer, "true")

\* Mutant: the query is not keyed by the labourer.
get_expired_tasks_for_labourer_of_all(table, labourer) ==
    {t \in DOMAIN table :
        /\ Between(table[t].greenfield, labourer.start, labourer.expired)
        /\ "closed" \notin DOMAIN table[t]}

\* Mutant: the range of the query has no lower end at labourer.start.
get_expired_tasks_for_labourer_no_start(table, labourer) ==
    {t \in IndexRows(table, labourer.id) :
        /\ table[t].greenfield < labourer.expired
        /\ "closed" \notin DOMAIN table[t]}

get_expired_tasks_for_labourer(table, labourer) ==
    {t \in IndexRows(table, labourer.id) :
        /\ Between(table[t].greenfield, labourer.start, labourer.expired)
        /\ "closed" \notin DOMAIN table[t]}

calculate_count_of_running_tasks_for_labourer(table, labourer) ==
    Cardinality(get_running_tasks_for_labourer(table, labourer))

(***************************************************************************)
(* Writes of TaskManager.                                                  *)
(***************************************************************************)
\* The condition expression of mark_task_invoked, evaluated by the store on
\* the stored row; a missing row has no greenfield and fails it.
LeaseCondition(table, task_id, labourer) ==
    /\ task_id \in DOMAIN table
    /\ table[task_id].greenfield < labourer.start

\* Mutant: the lease is written as the invocation time, without the horizon.
LeasedRow_no_delta(row, time) ==
    SetAttrs(row, [greenfield |-> time, attempts |-> row.attempts + 1])

\* The row mark_task_invoked writes when the condition holds.
\* Mutant: the lease write takes one attempt away.
LeasedRow_decrements(row, time) ==
    SetAttrs(row, [greenfield |-> time + greenfield_invocation_delta,
                   attempts |-> row.attempts - 1])

LeasedRow(row, time) ==
    SetAttrs(row, [greenfield |-> time + greenfield_invocation_delta,
                   attempts |-> row.attempts + 1])

\* Mutant: the update is written without its condition expression.
mark_task_invoked_unconditional(table, labourer, task, time) ==
    IF task = NoTask
    THEN [raised |-> "TypeError", table |-> table]
    ELSE IF labourer.id # task.labourer_id
    THEN [raised |-> "AssertionError", table |-> table]
    ELSE IF task.task_id \in DOMAIN table
    THEN [raised |-> "none",
          table |-> [table EXCEPT ![task.task_id] = LeasedRow(table[task.task_id], time)]]
    ELSE [raised |-> "ConditionalCheckFailedException", table |-> table]

\* mark_task_invoked: the assertion on the fetched task, then the conditional
\* update under the key {task_id, labourer.id}. `raised` names the exception.
mark_task_invoked(table, labourer, task, time) ==
    IF task = NoTask
    THEN [raised |-> "TypeError", table |-> table]
    ELSE IF labourer.id # task.labourer_id
    THEN [raised |-> "AssertionError", table |-> table]
    ELSE IF LeaseCondition(table, task.task_id, labourer)
    THEN [raised |-> "none",
          table |-> [table EXCEPT ![task.task_id] = LeasedRow(table[task.task_id], time)]]
    ELSE [raised |-> "ConditionalCheckFailedException", table |-> table]

\* Mutant: the condition-check failure is escalated like any other exception.
InvokeHandler_escalates(raised) ==
    IF raised = "none" THEN "invoke" ELSE "error"

\* Mutant: every exception of mark_task_invoked is counted as a skip.
InvokeHandler_skips_all(raised) ==
    IF raised = "none" THEN "invoke" ELSE "skipped"

\* The except clause of invoke_task: what the handler does with the outcome
\* of mark_task_invoked.
InvokeHandler(raised) ==
    IF raised = "none" THEN "invoke"
    ELSE IF raised = "ConditionalCheckFailedException" THEN "skipped"
    ELSE "error"

\* Mutant: the close write puts the task back to the head of the queue.
close_task_resets_greenfield(table, task_id, completed, time) ==
    [table EXCEPT ![task_id] =
        SetAttrs(table[task_id],
                 [closed |-> time, completed |-> completed, greenfield |-> 0])]

close_task(table, task_id, completed, time) ==
    [table EXCEPT ![task_id] =
        SetAttrs(table[task_id], [closed |-> time, completed |-> completed])]

\* Mutant: the archive row has the keys and the status only.
ArchiveRow_keys_only(task) ==
    [task_id |-> task.task_id,
     labourer_id |-> task.labourer_id,
     labourer_id_task_status |-> <<task.labourer_id, 0>>]

\* archive_task: the row with its labourer_id_task_status, put into the
\* archive table.
ArchiveRow(task) ==
    LET is_completed == IF "completed_at" \in DOMAIN task THEN 1 ELSE 0
    IN  SetAttrs(task, [labourer_id_task_status |-> <<task.labourer_id, is_completed>>])

RemoveRow(table, task_id) == [t \in (DOMAIN table) \ {task_id} |-> table[t]]

PutRow(table, row) ==
    [t \in (DOMAIN table) \cup {row.task_id} |->
        IF t = row.task_id THEN row ELSE table[t]]

\* archive_task up to its put: the task is fetched, the status is derived and
\* the row is put into the archive table. get_task_by_id returns None for a
\* task that has no row, and task.get on None raises.
archive_task_put(table, arch, task_id) ==
    LET task == get_task_by_id(table, task_id)
    IN  IF task = NoTask
        THEN [raised |-> "AttributeError", archive |-> arch]
        ELSE [raised |-> "none", archive |-> PutRow(arch, ArchiveRow(task))]

\* archive_task as one call that nothing interrupts: the put, then the delete.
archive_task(table, arch, task_id) ==
    LET p == archive_task_put(table, arch, task_id)
    IN  IF p.raised # "none"
        THEN [raised |-> p.raised, hot |-> table, archive |-> arch]
        ELSE [raised |-> "none", hot |-> RemoveRow(table, task_id), archive |-> p.archive]

(***************************************************************************)
(* Retry delay to queue position.                                          *)
(***************************************************************************)
Queue(table, labourer) ==
    SortAscending(table, {t \in IndexRows(table, labourer.id) :
                            table[t].greenfield < labourer.start})

get_length_of_queue_for_labourer(table, labourer) == Len(Queue(table, labourer))

\* The task at the 1-based position of the queue, NoTask when there is none.
get_queued_task_for_labourer_in_position(table, labourer, position) ==
    IF position \in 1..Len(Queue(table, labourer))
    THEN table[Queue(table, labourer)[position]]
    ELSE NoTask

\* Mutant: the quotient is rounded to the integer above it, exact or not.
Ceil_above(a, b) == (a \div b) + 1

Ceil(a, b) == (a + b - 1) \div b

\* Mutant: the greenfield of the target task is returned as it is.
calculate_greenfield_for_retry_task_with_delay_at_target(table, labourer, delay, time) ==
    LET queue_length == get_length_of_queue_for_labourer(table, labourer)
        wanted_delay == duration * delay
        wanted_position == Ceil(wanted_delay, labourer.average_duration)
        target == get_queued_task_for_labourer_in_position(table, labourer, wanted_position)
    IN  IF wanted_delay > queue_length * labourer.average_duration
        THEN [raised |-> "none", greenfield |-> time + wanted_delay]
        ELSE IF target = NoTask
        THEN [raised |-> "AttributeError", greenfield |-> 0]
        ELSE [raised |-> "none", greenfield |-> target.greenfield]

calculate_greenfield_for_retry_task_with_delay(table, labourer, delay, time) ==
    LET queue_length == get_length_of_queue_for_labourer(table, labourer)
        wanted_delay == duration * delay
        wanted_position == Ceil(wanted_delay, labourer.average_duration)
        target == get_queued_task_for_labourer_in_position(table, labourer, wanted_position)
    IN  IF wanted_delay > queue_length * labourer.average_duration
        THEN [raised |-> "none", greenfield |-> time + wanted_delay]
        ELSE IF target = NoTask
        THEN [raised |-> "AttributeError", greenfield |-> 0]
        ELSE [raised |-> "none", greenfield |-> target.greenfield - 1]

(***************************************************************************)
(* Scavenger (sosw.scavenger).                                             *)
(***************************************************************************)
\* Mutant: the health of the labourer is not looked at.
should_retry_task_ignores_health(task, labourer) ==
    task.attempts < labourer.max_attempts

should_retry_task(task, labourer) ==
    /\ task.attempts < labourer.max_attempts
    /\ labourer.health >= labourer.min_health_for_retry

close_dead_task(table, task_id, time) == close_task(table, task_id, 0, time)

\* Mutant: the retry closes the task as well.
allow_task_to_retry_and_close(table, task, greenfield) ==
    [table EXCEPT ![task.task_id] =
        SetAttrs(table[task.task_id],
                 [greenfield |-> greenfield,
                  attempts |-> table[task.task_id].attempts + 1,
                  closed |-> greenfield,
                  completed |-> 0])]

allow_task_to_retry(table, task, greenfield) ==
    [table EXCEPT ![task.task_id] =
        SetAttrs(table[task.task_id],
                 [greenfield |-> greenfield,
                  attempts |-> table[task.task_id].attempts + 1])]

\* The rows of a set of task ids, in the order of the index.
RowsOf(table, S) ==
    LET s == SortAscending(table, S) IN [i \in 1..Len(s) |-> table[s[i]]]

(***************************************************************************)
(* Scheduler (sosw/scheduler.py): the queue file of rows that are not yet  *)
(* tasks, in the local /tmp of a scheduler and in S3 under the queue key   *)
(* and the locked_ key.                                                    *)
(***************************************************************************)
Schedulers == {"s1", "s2"}
rows_to_process == 1

NoFile == [exists |-> FALSE, rows |-> <<>>]
File(rows) == [exists |-> TRUE, rows |-> rows]

\* The row a scheduler writes to a new local queue file.
NewRow(s) == IF s = "s1" THEN MaxRows + 1 ELSE MaxRows + 2

\* S3: the keys that exist, with the rows of their objects.
NoS3 == [k \in {} |-> <<>>]
S3Put(bucket, key, rows) ==
    [k \in (DOMAIN bucket) \cup {key} |-> IF k = key THEN rows ELSE bucket[k]]
S3Delete(bucket, key) == [k \in (DOMAIN bucket) \ {key} |-> bucket[k]]
S3Get(bucket, key) == IF key \in DOMAIN bucket THEN File(bucket[key]) ELSE NoFile

_remote_queue_file == "queue"
_remote_queue_locked_file == "locked_queue"

\* pop_rows_from_file: the rows read from the top of the file and the file
\* that is left; a file left without rows is removed, a missing file gives
\* no rows.
pop_rows_from_file(file, rows) ==
    IF ~file.exists
    THEN [data |-> <<>>, file |-> NoFile]
    ELSE LET n == IF rows < Len(file.rows) THEN rows ELSE Len(file.rows)
             rest == SubSeq(file.rows, n + 1, Len(file.rows))
         IN  [data |-> SubSeq(file.rows, 1, n),
              file |-> IF rest = <<>> THEN NoFile ELSE File(rest)]

NoSchedCall == [queue |-> NoFile, local |-> NoFile, had_locked |-> FALSE, left |-> NoFile]

\* No scheduler runs and there is no queue file.
NoQueueFiles ==
    /\ s3 = NoS3
    /\ local = [s \in Schedulers |-> NoFile]
    /\ sched_pc = [s \in Schedulers |-> "idle"]
    /\ sched_call = [s \in Schedulers |-> NoSchedCall]
    /\ created = [s \in Schedulers |-> {}]

(***************************************************************************)
(* Initial state: the producer has created the tasks, every orchestrator   *)
(* has registered its labourers, nothing was invoked yet.                  *)
(***************************************************************************)
NewTask(t, g) ==
    [task_id |-> t, labourer_id |-> OwnerOf(t), greenfield |-> g, attempts |-> 0]

NoCall == [labourer |-> "none", task_id |-> "none", task |-> NoTask,
           start |-> 0, skipped_before |-> 0,
           retried |-> FALSE, attempts_before |-> 0, invoked_before |-> 0,
           arg_task |-> NoTask]

\* The sweep has called neither method for any labourer.
NoScavCalls ==
    [handle_expired |-> [l \in Labourers |-> 0],
     archive_closed |-> [l \in Labourers |-> 0]]

\* The task manager, its orchestrators and the scavenger before they act.
InitManager ==
    /\ now = Instants[1]
    /\ ticks = 0
    /\ ecology \in Ecologies
    /\ \E g \in InitGreenfields : hot = [t \in DOMAIN g |-> NewTask(t, g[t])]
    /\ archive = [t \in {} |-> NoTask]
    /\ labs = [o \in Orchestrators |-> register_labourers(now, ecology)]
    /\ pc = [o \in Orchestrators |-> "idle"]
    /\ call = [o \in Orchestrators |-> NoCall]
    /\ outcome = [o \in Orchestrators |-> "none"]
    /\ skipped = [o \in Orchestrators |-> 0]
    /\ calls = [o \in Orchestrators |-> 0]
    /\ worker_calls = [t \in Tasks |-> 0]
    /\ leases = [t \in Tasks |-> 0]
    /\ scav_pc = "idle"
    /\ scav_labs = register_labourers(now, ecology)
    /\ scav_left = <<>>
    /\ scav_todo = <<>>
    /\ scav_calls = NoScavCalls

Init ==
    /\ InitManager
    /\ NoQueueFiles

orch_vars == <<labs, pc, call, outcome, skipped, calls>>

scav_vars == <<scav_pc, scav_labs, scav_left, scav_todo, scav_calls>>

sched_vars == <<s3, local, sched_pc, sched_call, created>>

(***************************************************************************)
(* The wall clock.                                                         *)
(***************************************************************************)
Tick ==
    /\ ticks < MaxTicks
    /\ ticks + 1 < Len(Instants)
    /\ now' = Instants[ticks + 2]
    /\ ticks' = ticks + 1
    /\ UNCHANGED <<ecology, hot, archive, worker_calls, leases>>
    /\ UNCHANGED orch_vars
    /\ UNCHANGED scav_vars
    /\ UNCHANGED sched_vars

(***************************************************************************)
(* Orchestrator: a cycle registers the labourers, then invokes tasks.      *)
(***************************************************************************)
Register(o) ==
    /\ pc[o] = "idle"
    /\ labs[o] # register_labourers(now, ecology)
    /\ labs' = [labs EXCEPT ![o] = register_labourers(now, ecology)]
    /\ UNCHANGED <<now, ticks, ecology, hot, archive, worker_calls, leases,
                   pc, call, outcome, skipped, calls>>
    /\ UNCHANGED scav_vars
    /\ UNCHANGED sched_vars

\* invoke_task, called for a task that get_next_for_labourer returns to the
\* orchestrator for its labourer, up to and including get_task_by_id.
InvokeFetch(o, l, t) ==
    /\ pc[o] = "idle"
    /\ t \in SeqRange(get_next_for_labourer(hot, labs[o][l], Cardinality(Tasks)))
    /\ calls[o] < MaxCalls
    /\ calls' = [calls EXCEPT ![o] = @ + 1]
    /\ call' = [call EXCEPT ![o] =
                  [labourer |-> l, task_id |-> t, task |-> get_task_by_id(hot, t),
                   start |-> labs[o][l].start, skipped_before |-> skipped[o],
                   retried |-> FALSE, attempts_before |-> hot[t].attempts,
                   invoked_before |-> worker_calls[t], arg_task |-> NoTask]]
    /\ outcome' = [outcome EXCEPT ![o] = "none"]
    /\ pc' = [pc EXCEPT ![o] = "mark"]
    /\ UNCHANGED <<now, ticks, ecology, hot, archive, worker_calls, leases,
                   labs, skipped>>
    /\ UNCHANGED scav_vars
    /\ UNCHANGED sched_vars

\* invoke_task called by a driver with any labourer and any task id of the
\* hot table, up to and including get_task_by_id.
InvokeCall(o, l, t) ==
    /\ pc[o] = "idle"
    /\ t \in DOMAIN hot
    /\ calls[o] < MaxCalls
    /\ calls' = [calls EXCEPT ![o] = @ + 1]
    /\ call' = [call EXCEPT ![o] =
                  [labourer |-> l, task_id |-> t, task |-> get_task_by_id(hot, t),
                   start |-> labs[o][l].start, skipped_before |-> skipped[o],
                   retried |-> FALSE, attempts_before |-> hot[t].attempts,
                   invoked_before |-> worker_calls[t], arg_task |-> NoTask]]
    /\ outcome' = [outcome EXCEPT ![o] = "none"]
    /\ pc' = [pc EXCEPT ![o] = "mark"]
    /\ UNCHANGED <<now, ticks, ecology, hot, archive, worker_calls, leases,
                   labs, skipped>>
    /\ UNCHANGED scav_vars
    /\ UNCHANGED sched_vars

\* invoke_task called with the task and no task id, up to and including
\* get_task_by_id, which is called with the task id that was not given.
InvokeCallByTask(o, l, t) ==
    /\ pc[o] = "idle"
    /\ t \in DOMAIN hot
    /\ calls[o] < MaxCalls
    /\ calls' = [calls EXCEPT ![o] = @ + 1]
    /\ call' = [call EXCEPT ![o] =
                  [labourer |-> l, task_id |-> "none",
                   task |-> get_task_by_id(hot, "none"),
                   start |-> labs[o][l].start, skipped_before |-> skipped[o],
                   retried |-> FALSE, attempts_before |-> hot[t].attempts,
                   invoked_before |-> worker_calls[t], arg_task |-> hot[t]]]
    /\ outcome' = [outcome EXCEPT ![o] = "none"]
    /\ pc' = [pc EXCEPT ![o] = "mark"]
    /\ UNCHANGED <<now, ticks, ecology, hot, archive, worker_calls, leases,
                   labs, skipped>>
    /\ UNCHANGED scav_vars
    /\ UNCHANGED sched_vars

\* invoke_task called with both the task and the task id, or with neither:
\* the check of the arguments raises AttributeError.
InvokeBadArguments(o, l, t, both) ==
    /\ pc[o] = "idle"
    /\ t \in DOMAIN hot
    /\ calls[o] < MaxCalls
    /\ calls' = [calls EXCEPT ![o] = @ + 1]
    /\ call' = [call EXCEPT ![o] =
                  [labourer |-> l, task_id |-> IF both THEN t ELSE "none",
                   task |-> NoTask,
                   start |-> labs[o][l].start, skipped_before |-> skipped[o],
                   retried |-> FALSE, attempts_before |-> hot[t].attempts,
                   invoked_before |-> worker_calls[t],
                   arg_task |-> IF both THEN hot[t] ELSE NoTask]]
    /\ outcome' = [outcome EXCEPT ![o] = "AttributeError"]
    /\ UNCHANGED <<now, ticks, ecology, hot, archive, worker_calls, leases,
                   labs, skipped, pc>>
    /\ UNCHANGED scav_vars
    /\ UNCHANGED sched_vars

\* invoke_task: the store update of mark_task_invoked raises an error that is
\* not the condition-check failure; nothing is written.
InvokeMarkError(o) ==
    /\ pc[o] = "mark"
    /\ call[o].task # NoTask
    /\ call[o].labourer = call[o].task.labourer_id
    /\ pc' = [pc EXCEPT ![o] = "idle"]
    /\ outcome' = [outcome EXCEPT ![o] = InvokeHandler("ClientError")]
    /\ UNCHANGED <<now, ticks, ecology, hot, archive, worker_calls, leases,
                   labs, call, skipped, calls>>
    /\ UNCHANGED scav_vars
    /\ UNCHANGED sched_vars

\* invoke_task: lambda_client.invoke raises; the lease write stays.
InvokeLambdaError(o) ==
    /\ pc[o] = "invoke"
    /\ outcome' = [outcome EXCEPT ![o] = "error"]
    /\ pc' = [pc EXCEPT ![o] = "idle"]
    /\ UNCHANGED <<now, ticks, ecology, hot, archive, worker_calls, leases,
                   labs, call, skipped, calls>>
    /\ UNCHANGED scav_vars
    /\ UNCHANGED sched_vars

\* The driver calls invoke_task again with the same labourer snapshot and
\* task id after the call raised.
InvokeRetry(o) ==
    /\ pc[o] = "idle"
    /\ outcome[o] = "error"
    /\ ~call[o].retried
    /\ call[o].task_id \in DOMAIN hot
    /\ labs[o][call[o].labourer].start = call[o].start
    /\ call' = [call EXCEPT ![o].task = get_task_by_id(hot, call[o].task_id),
                            ![o].retried = TRUE]
    /\ outcome' = [outcome EXCEPT ![o] = "none"]
    /\ pc' = [pc EXCEPT ![o] = "mark"]
    /\ UNCHANGED <<now, ticks, ecology, hot, archive, worker_calls, leases,
                   labs, skipped, calls>>
    /\ UNCHANGED scav_vars
    /\ UNCHANGED sched_vars

\* invoke_task: mark_task_invoked inside the try, and the except clause.
InvokeMark(o) ==
    /\ pc[o] = "mark"
    /\ LET r == mark_task_invoked(hot, labs[o][call[o].labourer], call[o].task, now)
           h == InvokeHandler(r.raised)
       IN  /\ hot' = r.table
           /\ leases' = IF r.raised = "none"
                        THEN [leases EXCEPT ![call[o].task_id] = @ + 1]
                        ELSE leases
           /\ skipped' = IF h = "skipped"
                         THEN [skipped EXCEPT ![o] = @ + 1]
                         ELSE skipped
           /\ pc' = [pc EXCEPT ![o] = IF h = "invoke" THEN "invoke" ELSE "idle"]
           /\ outcome' = [outcome EXCEPT ![o] = IF h = "invoke" THEN "none" ELSE h]
    /\ UNCHANGED <<now, ticks, ecology, archive, worker_calls, labs, call, calls>>
    /\ UNCHANGED scav_vars
    /\ UNCHANGED sched_vars

\* invoke_task: lambda_client.invoke.
InvokeLambda(o) ==
    /\ pc[o] = "invoke"
    /\ worker_calls' = [worker_calls EXCEPT ![call[o].task_id] = @ + 1]
    /\ outcome' = [outcome EXCEPT ![o] = "invoked"]
    /\ pc' = [pc EXCEPT ![o] = "idle"]
    /\ UNCHANGED <<now, ticks, ecology, hot, archive, leases, labs, call, skipped, calls>>
    /\ UNCHANGED scav_vars
    /\ UNCHANGED sched_vars

(***************************************************************************)
(* Worker: an invoked worker closes its task.                              *)
(***************************************************************************)
CloseTask(t, completed) ==
    /\ t \in DOMAIN hot
    /\ worker_calls[t] > 0
    /\ "closed" \notin DOMAIN hot[t]
    /\ hot' = close_task(hot, t, completed, now)
    /\ UNCHANGED <<now, ticks, ecology, archive, worker_calls, leases>>
    /\ UNCHANGED orch_vars
    /\ UNCHANGED scav_vars
    /\ UNCHANGED sched_vars

(***************************************************************************)
(* Scavenger sweep.                                                        *)
(***************************************************************************)
ScavRegister ==
    /\ scav_pc = "idle"
    /\ scav_labs' = register_labourers(now, ecology)
    /\ scav_left' = LabourerOrder
    /\ scav_todo' = <<>>
    /\ scav_pc' = "handle"
    /\ UNCHANGED <<now, ticks, ecology, hot, archive, worker_calls, leases>>
    /\ scav_calls' = NoScavCalls
    /\ UNCHANGED orch_vars
    /\ UNCHANGED sched_vars

\* handle_expired_tasks_for_labourer: the query.
ScavGetExpired ==
    /\ scav_pc = "handle"
    /\ scav_todo' = RowsOf(hot, get_expired_tasks_for_labourer(hot, scav_labs[Head(scav_left)]))
    /\ scav_pc' = "process"
    /\ UNCHANGED <<now, ticks, ecology, hot, archive, worker_calls, leases,
                   scav_labs, scav_left>>
    /\ scav_calls' = [scav_calls EXCEPT !.handle_expired[Head(scav_left)] = @ + 1]
    /\ UNCHANGED orch_vars
    /\ UNCHANGED sched_vars

\* process_expired_task on the next expired task: give up.
ScavCloseDead ==
    /\ scav_pc = "process"
    /\ scav_todo # <<>>
    /\ ~should_retry_task(Head(scav_todo), scav_labs[Head(scav_left)])
    /\ hot' = close_dead_task(hot, Head(scav_todo).task_id, now)
    /\ scav_todo' = Tail(scav_todo)
    /\ UNCHANGED <<now, ticks, ecology, archive, worker_calls, leases,
                   scav_pc, scav_labs, scav_left>>
    /\ UNCHANGED scav_calls
    /\ UNCHANGED orch_vars
    /\ UNCHANGED sched_vars

\* process_expired_task on the next expired task: retry. An exception of the
\* greenfield computation ends the sweep.
ScavAllowRetry(delay) ==
    /\ scav_pc = "process"
    /\ scav_todo # <<>>
    /\ should_retry_task(Head(scav_todo), scav_labs[Head(scav_left)])
    /\ LET g == calculate_greenfield_for_retry_task_with_delay(
                    hot, scav_labs[Head(scav_left)], delay, now)
       IN  IF g.raised = "none"
           THEN /\ hot' = allow_task_to_retry(hot, Head(scav_todo), g.greenfield)
                /\ scav_todo' = Tail(scav_todo)
                /\ UNCHANGED <<scav_pc, scav_left>>
           ELSE /\ scav_pc' = "idle"
                /\ scav_todo' = <<>>
                /\ scav_left' = <<>>
                /\ UNCHANGED hot
    /\ UNCHANGED <<now, ticks, ecology, archive, worker_calls, leases, scav_labs>>
    /\ UNCHANGED scav_calls
    /\ UNCHANGED orch_vars
    /\ UNCHANGED sched_vars

\* archive_closed_tasks_for_labourer: the query.
ScavGetClosed ==
    /\ scav_pc = "process"
    /\ scav_todo = <<>>
    /\ scav_todo' = RowsOf(hot, get_closed_tasks_for_labourer(hot, scav_labs[Head(scav_left)]))
    /\ scav_pc' = "archive"
    /\ UNCHANGED <<now, ticks, ecology, hot, archive, worker_calls, leases,
                   scav_labs, scav_left>>
    /\ scav_calls' = [scav_calls EXCEPT !.archive_closed[Head(scav_left)] = @ + 1]
    /\ UNCHANGED orch_vars
    /\ UNCHANGED sched_vars

\* Mutant: the row is deleted from the hot table before the put.
ScavArchivePut_deletes_first(put_ok) ==
    /\ scav_pc = "archive"
    /\ scav_todo # <<>>
    /\ hot' = RemoveRow(hot, Head(scav_todo).task_id)
    /\ LET p == archive_task_put(hot, archive, Head(scav_todo).task_id)
       IN  IF put_ok /\ p.raised = "none"
           THEN /\ archive' = p.archive
                /\ scav_pc' = "delete"
                /\ UNCHANGED <<scav_todo, scav_left>>
           ELSE /\ scav_pc' = "idle"
                /\ scav_todo' = <<>>
                /\ scav_left' = <<>>
                /\ UNCHANGED archive
    /\ UNCHANGED <<now, ticks, ecology, worker_calls, leases, scav_labs>>
    /\ UNCHANGED scav_calls
    /\ UNCHANGED orch_vars
    /\ UNCHANGED sched_vars

\* archive_task on the next closed task, up to the put. The put either
\* succeeds or raises; an exception ends the sweep.
ScavArchivePut(put_ok) ==
    /\ scav_pc = "archive"
    /\ scav_todo # <<>>
    /\ LET p == archive_task_put(hot, archive, Head(scav_todo).task_id)
       IN  IF put_ok /\ p.raised = "none"
           THEN /\ archive' = p.archive
                /\ scav_pc' = "delete"
                /\ UNCHANGED <<scav_todo, scav_left>>
           ELSE /\ scav_pc' = "idle"
                /\ scav_todo' = <<>>
                /\ scav_left' = <<>>
                /\ UNCHANGED archive
    /\ UNCHANGED <<now, ticks, ecology, hot, worker_calls, leases, scav_labs>>
    /\ UNCHANGED scav_calls
    /\ UNCHANGED orch_vars
    /\ UNCHANGED sched_vars

\* archive_task after the put: the delete from the hot table.
ScavArchiveDelete ==
    /\ scav_pc = "delete"
    /\ hot' = RemoveRow(hot, Head(scav_todo).task_id)
    /\ scav_todo' = Tail(scav_todo)
    /\ scav_pc' = "archive"
    /\ UNCHANGED <<now, ticks, ecology, archive, worker_calls, leases,
                   scav_labs, scav_left>>
    /\ UNCHANGED scav_calls
    /\ UNCHANGED orch_vars
    /\ UNCHANGED sched_vars

\* The sweep is cut short between the put and the delete.
ScavCutShort ==
    /\ scav_pc = "delete"
    /\ scav_pc' = "idle"
    /\ scav_todo' = <<>>
    /\ scav_left' = <<>>
    /\ UNCHANGED <<now, ticks, ecology, hot, archive, worker_calls, leases, scav_labs>>
    /\ UNCHANGED scav_calls
    /\ UNCHANGED orch_vars
    /\ UNCHANGED sched_vars

\* Mutant: the sweep passes over the labourer after the one it has done.
ScavNextLabourer_skips ==
    /\ scav_pc = "archive"
    /\ scav_todo = <<>>
    /\ scav_left' = SubSeq(scav_left, 3, Len(scav_left))
    /\ scav_pc' = IF SubSeq(scav_left, 3, Len(scav_left)) = <<>> THEN "idle" ELSE "handle"
    /\ UNCHANGED <<now, ticks, ecology, hot, archive, worker_calls, leases,
                   scav_labs, scav_todo>>
    /\ UNCHANGED scav_calls
    /\ UNCHANGED orch_vars
    /\ UNCHANGED sched_vars

\* The sweep goes on to the next labourer, or ends.
ScavNextLabourer ==
    /\ scav_pc = "archive"
    /\ scav_todo = <<>>
    /\ scav_left' = Tail(scav_left)
    /\ scav_pc' = IF Tail(scav_left) = <<>> THEN "idle" ELSE "handle"
    /\ UNCHANGED <<now, ticks, ecology, hot, archive, worker_calls, leases,
                   scav_labs, scav_todo>>
    /\ UNCHANGED scav_calls
    /\ UNCHANGED orch_vars
    /\ UNCHANGED sched_vars

(***************************************************************************)
(* Scheduler: process_file with get_and_lock_queue_file, the loop over the *)
(* rows and upload_and_unlock_queue_file.                                  *)
(***************************************************************************)
manager_vars == <<now, ticks, ecology, hot, archive, worker_calls, leases>>

\* What get_and_lock_queue_file finds when it is called.
LockCall(s) ==
    [queue |-> S3Get(s3, _remote_queue_file), local |-> local[s],
     had_locked |-> _remote_queue_locked_file \in DOMAIN s3, left |-> NoFile]

\* get_and_lock_queue_file without a local file: download_file. A missing
\* remote file is counted and the function returns.
SchedDownload(s) ==
    /\ sched_pc[s] = "idle"
    /\ ~local[s].exists
    /\ sched_call' = [sched_call EXCEPT ![s] = LockCall(s)]
    /\ local' = [local EXCEPT ![s] = S3Get(s3, _remote_queue_file)]
    /\ sched_pc' = [sched_pc EXCEPT ![s] =
                      IF _remote_queue_file \in DOMAIN s3 THEN "copy" ELSE "locked"]
    /\ UNCHANGED <<s3, created>>
    /\ UNCHANGED <<manager_vars, orch_vars, scav_vars>>

\* get_and_lock_queue_file with a local file: upload_file under the locked_
\* key.
SchedUploadLocked(s) ==
    /\ sched_pc[s] = "idle"
    /\ local[s].exists
    /\ sched_call' = [sched_call EXCEPT ![s] = LockCall(s)]
    /\ s3' = S3Put(s3, _remote_queue_locked_file, local[s].rows)
    /\ sched_pc' = [sched_pc EXCEPT ![s] = "locked"]
    /\ UNCHANGED <<local, created>>
    /\ UNCHANGED <<manager_vars, orch_vars, scav_vars>>

\* get_and_lock_queue_file after the download: copy_object to the locked_
\* key; a missing source raises ClientError, which nothing catches.
SchedCopy(s) ==
    /\ sched_pc[s] = "copy"
    /\ IF _remote_queue_file \in DOMAIN s3
       THEN /\ s3' = S3Put(s3, _remote_queue_locked_file, s3[_remote_queue_file])
            /\ sched_pc' = [sched_pc EXCEPT ![s] = "delete"]
       ELSE /\ sched_pc' = [sched_pc EXCEPT ![s] = "ClientError"]
            /\ UNCHANGED s3
    /\ UNCHANGED <<local, sched_call, created>>
    /\ UNCHANGED <<manager_vars, orch_vars, scav_vars>>

\* Mutant: the remote queue file is left under its key.
SchedDelete_keeps_remote(s) ==
    /\ sched_pc[s] = "delete"
    /\ sched_pc' = [sched_pc EXCEPT ![s] = "locked"]
    /\ UNCHANGED <<s3, local, sched_call, created>>
    /\ UNCHANGED <<manager_vars, orch_vars, scav_vars>>

\* get_and_lock_queue_file: delete_object of the remote queue file, return.
SchedDelete(s) ==
    /\ sched_pc[s] = "delete"
    /\ s3' = S3Delete(s3, _remote_queue_file)
    /\ sched_pc' = [sched_pc EXCEPT ![s] = "locked"]
    /\ UNCHANGED <<local, sched_call, created>>
    /\ UNCHANGED <<manager_vars, orch_vars, scav_vars>>

\* process_file: one turn of the loop. The rows popped from the local file
\* are passed to create_task, which returns or raises; no row left ends the
\* loop.
SchedPop(s, task_ok) ==
    /\ sched_pc[s] \in {"locked", "process"}
    /\ LET p == pop_rows_from_file(local[s], rows_to_process)
       IN  /\ local' = [local EXCEPT ![s] = p.file]
           /\ created' = [created EXCEPT ![s] = @ \cup SeqRange(p.data)]
           /\ sched_pc' = [sched_pc EXCEPT ![s] =
                             IF p.data = <<>> THEN "unlock"
                             ELSE IF task_ok THEN "process"
                             ELSE "TaskError"]
    /\ UNCHANGED <<s3, sched_call>>
    /\ UNCHANGED <<manager_vars, orch_vars, scav_vars>>

\* process_file: sufficient_execution_time_left is false.
SchedTimeOut(s) ==
    /\ sched_pc[s] \in {"locked", "process"}
    /\ sched_pc' = [sched_pc EXCEPT ![s] = "unlock"]
    /\ UNCHANGED <<s3, local, sched_call, created>>
    /\ UNCHANGED <<manager_vars, orch_vars, scav_vars>>

\* upload_and_unlock_queue_file called on its own.
SchedUnlockCall(s) ==
    /\ sched_pc[s] = "idle"
    /\ sched_pc' = [sched_pc EXCEPT ![s] = "unlock"]
    /\ sched_call' = [sched_call EXCEPT ![s] = NoSchedCall]
    /\ UNCHANGED <<s3, local, created>>
    /\ UNCHANGED <<manager_vars, orch_vars, scav_vars>>

\* Mutant: the rows left are uploaded under the locked_ key.
SchedUnlockUpload_to_locked(s) ==
    /\ sched_pc[s] = "unlock"
    /\ sched_call' = [sched_call EXCEPT
                        ![s].had_locked = _remote_queue_locked_file \in DOMAIN s3,
                        ![s].left = local[s]]
    /\ s3' = IF local[s].exists
             THEN S3Put(s3, _remote_queue_locked_file, local[s].rows)
             ELSE s3
    /\ sched_pc' = [sched_pc EXCEPT ![s] = "unlock_delete"]
    /\ UNCHANGED <<local, created>>
    /\ UNCHANGED <<manager_vars, orch_vars, scav_vars>>

\* upload_and_unlock_queue_file: a local file is uploaded under the remote
\* queue key.
SchedUnlockUpload(s) ==
    /\ sched_pc[s] = "unlock"
    /\ sched_call' = [sched_call EXCEPT
                        ![s].had_locked = _remote_queue_locked_file \in DOMAIN s3,
                        ![s].left = local[s]]
    /\ s3' = IF local[s].exists
             THEN S3Put(s3, _remote_queue_file, local[s].rows)
             ELSE s3
    /\ sched_pc' = [sched_pc EXCEPT ![s] = "unlock_delete"]
    /\ UNCHANGED <<local, created>>
    /\ UNCHANGED <<manager_vars, orch_vars, scav_vars>>

\* upload_and_unlock_queue_file: delete_object of the locked_ key, return.
SchedUnlockDelete(s) ==
    /\ sched_pc[s] = "unlock_delete"
    /\ s3' = S3Delete(s3, _remote_queue_locked_file)
    /\ sched_pc' = [sched_pc EXCEPT ![s] = "unlocked"]
    /\ UNCHANGED <<local, sched_call, created>>
    /\ UNCHANGED <<manager_vars, orch_vars, scav_vars>>

\* The call has returned or raised; the container of the scheduler is free
\* for the next call.
SchedReturn(s) ==
    /\ sched_pc[s] \in {"unlocked", "ClientError", "TaskError"}
    /\ sched_pc' = [sched_pc EXCEPT ![s] = "idle"]
    /\ UNCHANGED <<s3, local, sched_call, created>>
    /\ UNCHANGED <<manager_vars, orch_vars, scav_vars>>

SchedulerNext(s) ==
    \/ SchedDownload(s)
    \/ SchedUploadLocked(s)
    \/ SchedCopy(s)
    \/ SchedDelete(s)
    \/ \E task_ok \in BOOLEAN : SchedPop(s, task_ok)
    \/ SchedTimeOut(s)
    \/ SchedUnlockCall(s)
    \/ SchedUnlockUpload(s)
    \/ SchedUnlockDelete(s)
    \/ SchedReturn(s)

ClockNext == Tick

OrchestratorNext(o) ==
    \/ Register(o)
    \/ \E l \in Labourers, t \in Tasks : InvokeFetch(o, l, t)
    \/ InvokeMark(o)
    \/ InvokeLambda(o)

WorkerNext == \E t \in Tasks, c \in {0, 1} : CloseTask(t, c)

ScavengerNext ==
    \/ ScavRegister
    \/ ScavGetExpired
    \/ ScavCloseDead
    \/ \E delay \in 0..MaxDelay : ScavAllowRetry(delay)
    \/ ScavGetClosed
    \/ \E put_ok \in BOOLEAN : ScavArchivePut(put_ok)
    \/ ScavArchiveDelete
    \/ ScavCutShort
    \/ ScavNextLabourer

\* The whole system with one orchestrator: cycles of the orchestrator, the
\* workers it invokes and the sweeps of the scavenger.
Next ==
    \/ ClockNext
    \/ OrchestratorNext("o1")
    \/ WorkerNext
    \/ ScavengerNext

Spec == Init /\ [][Next]_vars

\* Concurrent orchestrators over the same table, without the scavenger.
InitRace ==
    /\ Init
    /\ ecology.health["w1"] = 1
    /\ ecology.average_duration = 60

NextRace ==
    \/ ClockNext
    \/ \E o \in Orchestrators : OrchestratorNext(o)
    \/ \E t \in Tasks : CloseTask(t, 1)

SpecRace == InitRace /\ [][NextRace]_vars

\* One driver calling invoke_task with any labourer and task id, with the
\* dependency failures of the call and the re-attempt of a failed call.
NextInvoke ==
    \/ ClockNext
    \/ Register("o1")
    \/ \E l \in Labourers, t \in Tasks : InvokeCall("o1", l, t)
    \/ \E l \in Labourers, t \in Tasks : InvokeCallByTask("o1", l, t)
    \/ \E l \in Labourers, t \in Tasks, both \in BOOLEAN :
            InvokeBadArguments("o1", l, t, both)
    \/ InvokeMark("o1")
    \/ InvokeMarkError("o1")
    \/ InvokeLambda("o1")
    \/ InvokeLambdaError("o1")
    \/ InvokeRetry("o1")

SpecInvoke == InitRace /\ [][NextInvoke]_vars

\* The retry of an expired task into queues of different lengths: the
\* producer has created up to three tasks for labourer w1, t1 was leased at
\* the first instant and is expired at the third, the others are queued.
RetryAverages == {60, 200, 300}

RetryTables ==
    {[t \in S |-> [task_id |-> t, labourer_id |-> "w1",
                   greenfield |-> g[t], attempts |-> IF t = "t1" THEN a ELSE 0]] :
        S \in {{"t1"}, {"t1", "t2"}, {"t1", "t3"}, {"t1", "t2", "t3"}},
        g \in {[t1 |-> Instants[1] + greenfield_invocation_delta, t2 |-> g2, t3 |-> g3] :
                  g2 \in {50, 100}, g3 \in {20, 70}},
        a \in {1, max_attempts}}

InitRetry ==
    /\ now = Instants[3]
    /\ ticks = 2
    /\ \E a \in RetryAverages :
            ecology = [health |-> [l \in Labourers |-> 1], average_duration |-> a]
    /\ hot \in RetryTables
    /\ archive = [t \in {} |-> NoTask]
    /\ labs = [o \in Orchestrators |-> register_labourers(now, ecology)]
    /\ pc = [o \in Orchestrators |-> "idle"]
    /\ call = [o \in Orchestrators |-> NoCall]
    /\ outcome = [o \in Orchestrators |-> "none"]
    /\ skipped = [o \in Orchestrators |-> 0]
    /\ calls = [o \in Orchestrators |-> 0]
    /\ worker_calls = [t \in Tasks |-> IF t = "t1" THEN 1 ELSE 0]
    /\ leases = [t \in Tasks |-> IF t = "t1" THEN 1 ELSE 0]
    /\ scav_pc = "idle"
    /\ scav_labs = register_labourers(now, ecology)
    /\ scav_left = <<>>
    /\ scav_todo = <<>>
    /\ scav_calls = NoScavCalls
    /\ NoQueueFiles

NextRetry ==
    \/ ScavRegister
    \/ ScavGetExpired
    \/ ScavCloseDead
    \/ \E delay \in 0..MaxDelay : ScavAllowRetry(delay)
    \/ ScavGetClosed
    \/ ScavNextLabourer

SpecRetry == InitRetry /\ [][NextRetry]_vars

\* The queue files a scheduler can find: a remote queue file or none, a
\* locked_ copy of an earlier run or none, and in its own /tmp a new file or
\* none.
QueueRows == [i \in 1..MaxRows |-> i]

S3Files ==
    {NoS3,
     S3Put(NoS3, _remote_queue_file, QueueRows),
     S3Put(NoS3, _remote_queue_locked_file, <<0>>),
     S3Put(S3Put(NoS3, _remote_queue_file, QueueRows), _remote_queue_locked_file, <<0>>)}

InitSched ==
    /\ InitManager
    /\ ecology.health["w1"] = 1
    /\ ecology.average_duration = 60
    /\ DOMAIN hot = {"t1", "t3"}
    /\ scav_calls = NoScavCalls
    /\ s3 \in S3Files
    /\ local \in [Schedulers -> {NoFile}] \cup {[s \in Schedulers |-> File(<<NewRow(s)>>)]}
    /\ sched_pc = [s \in Schedulers |-> "idle"]
    /\ sched_call = [s \in Schedulers |-> NoSchedCall]
    /\ created = [s \in Schedulers |-> {}]

\* One scheduler on the queue files.
NextSched == SchedulerNext("s1")

SpecSched == InitSched /\ [][NextSched]_vars

\* Concurrent schedulers on the same queue files, one process_file each.
NextSchedRace ==
    \E s \in Schedulers :
        \/ SchedDownload(s)
        \/ SchedUploadLocked(s)
        \/ SchedCopy(s)
        \/ SchedDelete(s)
        \/ \E task_ok \in BOOLEAN : SchedPop(s, task_ok)
        \/ SchedTimeOut(s)
        \/ SchedUnlockUpload(s)
        \/ SchedUnlockDelete(s)

SpecSchedRace == InitSched /\ [][NextSchedRace]_vars

\* The scavenger is run on a schedule: a sweep that can take its next step
\* eventually takes it.
SpecLive == Spec /\ WF_vars(ScavengerNext)


(***************************************************************************)
(* Properties.                                                             *)
(***************************************************************************)
\* Two finished invoke_task calls of different orchestrators on the same
\* task, with the same Labourer snapshot, that both fetched the task while
\* it was still queued.
RacedCalls(a, b) ==
    /\ a # b
    /\ pc[a] = "idle" /\ pc[b] = "idle"
    /\ outcome[a] # "none" /\ outcome[b] # "none"
    /\ call[a].task # NoTask
    /\ call[a].task = call[b].task
    /\ call[a].labourer = call[a].task.labourer_id
    /\ call[b].labourer = call[a].labourer
    /\ call[a].start = call[b].start
    /\ call[a].task.greenfield < call[a].start

MarkStep(o) == pc[o] = "mark" /\ pc'[o] # "mark"

\* The conditional update of o's call is attempted and its condition fails.
ConditionFails(o) ==
    /\ call[o].task # NoTask
    /\ call[o].task.labourer_id = call[o].labourer
    /\ ~LeaseCondition(hot, call[o].task_id, labs[o][call[o].labourer])

C3_ConditionalLease ==
    [][\A o \in Orchestrators :
        MarkStep(o) =>
            LET t == call[o].task_id
                L == labs[o][call[o].labourer]
            IN  IF /\ call[o].task # NoTask
                   /\ call[o].task.labourer_id = L.id
                   /\ t \in DOMAIN hot
                   /\ hot[t].greenfield < L.start
                THEN /\ hot'[t].greenfield = now + greenfield_invocation_delta
                     /\ hot'[t].greenfield >= L.invoked
                     /\ hot'[t].attempts = hot[t].attempts + 1
                     /\ t \notin SeqRange(get_next_for_labourer(hot', L, Cardinality(Tasks)))
                     /\ DOMAIN hot' = DOMAIN hot
                     /\ \A u \in DOMAIN hot : u # t => hot'[u] = hot[u]
                     /\ \A f \in DOMAIN hot[t] \ {"greenfield", "attempts"} :
                            hot'[t][f] = hot[t][f]
                ELSE hot' = hot
      ]_vars

C3_Witness ==
    \E a, b \in Orchestrators :
        /\ outcome[a] = "invoked" /\ outcome[b] = "skipped"
        /\ call[a].task_id = call[b].task_id
        /\ hot[call[a].task_id].attempts = 1


\* The Labourer snapshots that some process holds.
Snapshots ==
    {labs[o][l] : o \in Orchestrators, l \in Labourers}
        \cup {scav_labs[l] : l \in Labourers}

\* Every task get_next_for_labourer can return for the snapshot.
NextOf(L) == SeqRange(get_next_for_labourer(hot, L, Cardinality(Tasks)))

\* C4: once a task has closed_at set, no later Labourer snapshot gets it
\* from get_next_for_labourer and no invoke_task leases it again.
C4_ClosedNeverInvokedAgain ==
    [][\A t \in DOMAIN hot :
        "closed" \in DOMAIN hot[t] =>
            /\ \A L \in Snapshots : L.start >= hot[t].closed => t \notin NextOf(L)
            /\ leases'[t] = leases[t]
      ]_vars

\* C5: every task that becomes closed is eventually archived under repeated
\* sweeps: it ends up in the archive table and absent from the hot table.
C5_ClosedEventuallyArchived ==
    \A t \in Tasks :
        (t \in DOMAIN hot /\ "closed" \in DOMAIN hot[t])
            ~> (t \notin DOMAIN hot /\ t \in DOMAIN archive)

\* C6 as claimed: every registered Labourer has expired < start < invoked.
C6_ExpiredBelowStart ==
    \A L \in Snapshots : L.expired < L.start /\ L.start < L.invoked

\* C6 as amended: every registered Labourer has start < expired < invoked
\* (greenfield_invocation_delta > duration + cooldown > 0).
C6_StartBelowExpiredBelowInvoked ==
    \A L \in Snapshots : L.start < L.expired /\ L.expired < L.invoked

C6_Witness ==
    \E o \in Orchestrators : labs[o]["w1"].start > Instants[1]

\* The derived states of a task under a snapshot of its owner.
StatesOf(t, L) ==
    {"queued" : x \in {t} \cap NextOf(L)}
        \cup {"running" : x \in {t} \cap get_running_tasks_for_labourer(hot, L)}
        \cup {"expired" : x \in {t} \cap get_expired_tasks_for_labourer(hot, L)}
        \cup {"closed" : x \in {t} \cap get_closed_tasks_for_labourer(hot, L)}

\* C7: for every task and every snapshot of its owner exactly one of the
\* four queries (get_next, get_running, get_expired, get_closed) returns it.
C7_ExactlyOneState ==
    \A t \in DOMAIN hot : \A L \in Snapshots :
        L.id = hot[t].labourer_id => Cardinality(StatesOf(t, L)) = 1

\* A task that snapshot A sees running, and a snapshot B whose start is
\* A's invoked + 1.
RunningThenInvokedPlusOne(t, A, B) ==
    /\ A.id = hot[t].labourer_id
    /\ B.id = A.id
    /\ B.start = A.invoked + 1
    /\ t \in get_running_tasks_for_labourer(hot, A)

\* C8 as claimed: an unclosed task that is running for a snapshot is expired
\* (returned by get_expired, not by get_next or get_running) for the
\* snapshot whose start is the first one's invoked + 1.
C8_ExpiredAtInvokedPlusOne ==
    \A t \in DOMAIN hot : \A A, B \in Snapshots :
        RunningThenInvokedPlusOne(t, A, B) =>
            /\ t \in get_expired_tasks_for_labourer(hot, B)
            /\ t \notin NextOf(B)
            /\ t \notin get_running_tasks_for_labourer(hot, B)

\* C8 as amended: an unclosed task that is running for a snapshot is queued
\* (returned by get_next, not by get_expired or get_running) for the
\* snapshot whose start is the first one's invoked + 1.
C8_QueuedAtInvokedPlusOne ==
    \A t \in DOMAIN hot : \A A, B \in Snapshots :
        RunningThenInvokedPlusOne(t, A, B) =>
            /\ t \in NextOf(B)
            /\ t \notin get_expired_tasks_for_labourer(hot, B)
            /\ t \notin get_running_tasks_for_labourer(hot, B)

C8_Witness ==
    \E t \in DOMAIN hot : \E A, B \in Snapshots : RunningThenInvokedPlusOne(t, A, B)

\* C9: a Labourer registered at start 1000 has invoked 31558600 and expired
\* 31558240, and an unclosed task with greenfield 31558300 is returned by
\* get_running_tasks_for_labourer and not by get_expired_tasks_for_labourer.
C9_LeaseWindowExample ==
    \A L \in Snapshots :
        L.start = 1000 =>
            /\ L.invoked = 31558600
            /\ L.expired = 31558240
            /\ \A t \in IndexRows(hot, L.id) :
                (hot[t].greenfield = 31558300 /\ "closed" \notin DOMAIN hot[t]) =>
                    /\ t \in get_running_tasks_for_labourer(hot, L)
                    /\ t \notin get_expired_tasks_for_labourer(hot, L)

C9_Witness ==
    \E L \in Snapshots : \E t \in IndexRows(hot, L.id) :
        /\ L.start = 1000
        /\ hot[t].greenfield = 31558300
        /\ "closed" \notin DOMAIN hot[t]

\* The queued tasks of a snapshot.
QueuedOf(L) == {t \in DOMAIN hot : hot[t].labourer_id = L.id /\ hot[t].greenfield < L.start}

\* get_next_for_labourer returns at most cnt tasks of the labourer, each
\* once, all with greenfield below start, the smallest greenfields first.
NextIsQueueHead(L, cnt, r) ==
    /\ Len(r) <= cnt
    /\ \A i \in 1..Len(r) : r[i] \in QueuedOf(L)
    /\ \A i, j \in 1..Len(r) : i < j => r[i] # r[j]
    /\ \A i \in 1..Len(r) : \A u \in QueuedOf(L) \ SeqRange(r) :
            hot[r[i]].greenfield <= hot[u].greenfield

StrictlyAscending(r) ==
    \A i, j \in 1..Len(r) : i < j => hot[r[i]].greenfield < hot[r[j]].greenfield

\* C10 as claimed: the result is in strictly ascending greenfield order.
C10_StrictlyAscending ==
    \A L \in Snapshots : \A cnt \in 0..Cardinality(Tasks) :
        LET r == get_next_for_labourer(hot, L, cnt)
        IN  NextIsQueueHead(L, cnt, r) /\ StrictlyAscending(r)

\* C10 as amended: get_next_for_labourer(labourer, cnt) returns at most cnt
\* task ids of labourer.id with greenfield < labourer.start, the smallest
\* greenfields first and in ascending order: never descending, and strictly
\* ascending when the queued greenfields are distinct.
C10_AscendingSmallestFirst ==
    \A L \in Snapshots : \A cnt \in 0..Cardinality(Tasks) :
        LET r == get_next_for_labourer(hot, L, cnt)
        IN  /\ NextIsQueueHead(L, cnt, r)
            /\ IsAscending(hot, r)
            /\ (\A t, u \in QueuedOf(L) : t # u => hot[t].greenfield # hot[u].greenfield)
                   => StrictlyAscending(r)

C10_Witness ==
    \E L \in Snapshots :
        LET r == get_next_for_labourer(hot, L, 1)
        IN  /\ Len(r) = 1
            /\ hot[r[1]].greenfield = 50
            /\ \E u \in QueuedOf(L) : hot[u].greenfield = 100

\* The scavenger processes the next expired task of its list and goes on
\* with the list.
ProcessStep ==
    /\ scav_pc = "process"
    /\ scav_todo # <<>>
    /\ scav_pc' = "process"
    /\ scav_todo' = Tail(scav_todo)

\* C11: over every step (lease, close, retry, give-up, archive) the attempts
\* of a task never decrease, the archive row keeps the attempts of the hot
\* row, and a retry granted by the scavenger strictly increases them.
C11_AttemptsNeverDecrease ==
    [][/\ \A t \in DOMAIN hot \cap DOMAIN hot' :
            hot'[t].attempts >= hot[t].attempts
       /\ \A t \in DOMAIN archive' :
            archive'[t] # get_task_by_id(archive, t) =>
                t \in DOMAIN hot /\ archive'[t].attempts = hot[t].attempts
       /\ (ProcessStep /\ should_retry_task(Head(scav_todo), scav_labs[Head(scav_left)])) =>
            hot'[Head(scav_todo).task_id].attempts
                > hot[Head(scav_todo).task_id].attempts
      ]_vars

\* A task that was retried: it has more attempts than leases.
C11_Witness ==
    \E t \in DOMAIN hot : leases[t] > 0 /\ hot[t].attempts > leases[t]

\* The snapshots a sweep or a cycle can register from now on.
LaterSnapshots(l) ==
    {Labourer(l, Instants[i], ecology) : i \in (ticks + 1)..Len(Instants)}

\* C12: after allow-retry of an expired-unclosed task the task is queued: as
\* the retry has left it, it is returned by get_next_for_labourer for a later
\* snapshot and by get_expired_tasks_for_labourer for none, so that it is
\* not retried or given up again before it is invoked again.
C12_RetriedIsQueued ==
    [][(ProcessStep /\ should_retry_task(Head(scav_todo), scav_labs[Head(scav_left)])) =>
            LET t == Head(scav_todo).task_id
                l == Head(scav_left)
            IN  /\ \E L \in LaterSnapshots(l) :
                        t \in SeqRange(get_next_for_labourer(hot', L, Cardinality(Tasks)))
                /\ \A L \in LaterSnapshots(l) :
                        t \notin get_expired_tasks_for_labourer(hot', L)
      ]_vars

\* process_expired_task has run on the first task of the list: the list has
\* lost it, or an exception has ended the sweep.
ProcessedHead ==
    /\ scav_pc = "process"
    /\ scav_todo # <<>>
    /\ scav_todo' # scav_todo

IsClosed(row) == "closed" \in DOMAIN row

\* The row was closed as failed by the step.
ClosedAsFailed(t) ==
    /\ IsClosed(hot'[t])
    /\ hot'[t].closed = now
    /\ hot'[t].completed = 0

C14_ExactlyOneOutcome ==
    [][ProcessedHead =>
            LET task == Head(scav_todo)
                t == task.task_id
                L == scav_labs[Head(scav_left)]
            IN  /\ \A u \in DOMAIN hot : u # t => hot'[u] = hot[u]
                /\ DOMAIN hot' = DOMAIN hot
                /\ IF should_retry_task(task, L)
                   THEN \/ /\ hot'[t].attempts = hot[t].attempts + 1
                           /\ \A f \in DOMAIN hot'[t] \ {"greenfield", "attempts"} :
                                f \in DOMAIN hot[t] /\ hot'[t][f] = hot[t][f]
                           /\ scav_todo' = Tail(scav_todo)
                        \/ hot' = hot /\ scav_pc' = "idle"
                   ELSE /\ hot'[t] = SetAttrs(hot[t], [closed |-> now, completed |-> 0])
                        /\ scav_todo' = Tail(scav_todo)
      ]_vars

\* Both outcomes have been applied, each by one step: the task was leased
\* once, retried twice and then given up by the scavenger.
C14_Witness ==
    \E t \in DOMAIN hot :
        /\ leases[t] = 1
        /\ hot[t].attempts = leases[t] + 2
        /\ worker_calls[t] = 0
        /\ hot[t] = SetAttrs(hot[t], [closed |-> now, completed |-> 0])

\* C15: a task with closed set is never returned by
\* get_expired_tasks_for_labourer, and no step of a sweep applies the give-up
\* or the retry write to a task that is already closed.
C15_ClosedNeverProcessed ==
    [][/\ \A L \in Snapshots : \A t \in get_expired_tasks_for_labourer(hot, L) :
            ~IsClosed(hot[t])
       /\ (ProcessedHead /\ hot' # hot) => ~IsClosed(hot[Head(scav_todo).task_id])
      ]_vars

\* The row is the other row with the derived status field added.
IsRowPlusStatus(arow, row) ==
    /\ DOMAIN arow = DOMAIN row \cup {"labourer_id_task_status"}
    /\ \A f \in DOMAIN row : arow[f] = row[f]

\* C16: archive_task on a task of the hot table leaves the task absent from
\* the hot table and one row for it in the archive table, with the fields of
\* the hot row and the derived labourer_id_task_status: the put of a sweep
\* writes that row, the delete takes the hot row away and leaves the archive
\* row, and so does the call as a whole from every reachable state.
C16_ArchiveMovesRow ==
    [][/\ (scav_pc = "archive" /\ scav_pc' = "delete") =>
            LET t == Head(scav_todo).task_id
            IN  /\ IsRowPlusStatus(archive'[t], hot[t])
                /\ \A u \in DOMAIN archive' : u # t => u \in DOMAIN archive /\ archive'[u] = archive[u]
       /\ (scav_pc = "delete" /\ scav_pc' = "archive") =>
            LET t == Head(scav_todo).task_id
            IN  /\ t \notin DOMAIN hot'
                /\ t \in DOMAIN archive'
                /\ archive' = archive
                /\ \A u \in DOMAIN hot : u # t => u \in DOMAIN hot' /\ hot'[u] = hot[u]
       /\ \A t \in DOMAIN hot :
            LET r == archive_task(hot, archive, t)
            IN  /\ r.raised = "none"
                /\ t \notin DOMAIN r.hot
                /\ IsRowPlusStatus(r.archive[t], hot[t])
      ]_vars

\* A sweep has archived a task: it is in the archive table only.
C16_Witness ==
    \E t \in DOMAIN archive :
        /\ t \notin DOMAIN hot
        /\ scav_pc = "archive"

\* C17: archive_task on a task that was archived and deleted from the hot
\* table raises nothing and leaves both tables as they are.
C17_ArchiveAgainIsNoOp ==
    \A t \in (DOMAIN archive) \ (DOMAIN hot) :
        LET r == archive_task(hot, archive, t)
        IN  /\ r.raised = "none"
            /\ r.hot = hot
            /\ r.archive = archive

\* C18: the delete of archive_task comes after the put has succeeded, and no
\* step, a failed put and a sweep cut short between the put and the delete
\* included, loses a task: a task of the hot table is in the hot table or in
\* the archive table after the step.
C18_NeverLost ==
    [][/\ \A t \in DOMAIN hot : t \in DOMAIN hot' \/ t \in DOMAIN archive'
       /\ \A t \in DOMAIN archive : t \in DOMAIN archive'
       /\ \A t \in DOMAIN hot : t \notin DOMAIN hot' =>
            /\ t \in DOMAIN archive
            /\ scav_pc = "delete"
      ]_vars

\* A sweep was cut short between the put and the delete: the task is in both
\* tables and no archive_task is running.
C18_Witness ==
    \E t \in DOMAIN hot : t \in DOMAIN archive /\ scav_pc = "idle"

\* C19: the status of an archive row is the labourer_id with the completed
\* flag of the task: 1 for a task closed with completed = True, 0 for one
\* closed with completed = False.
C19_StatusIsCompletedFlag ==
    \A t \in DOMAIN archive :
        archive[t].labourer_id_task_status
            = <<archive[t].labourer_id, archive[t].completed>>

\* C20: close_task sets closed to now and completed to the flag, whatever
\* the row holds, and changes nothing else: from every reachable state the
\* call does so for every task and flag, and every step that writes closed
\* or completed is such a write.
C20_CloseTaskFrame ==
    [][/\ \A t \in DOMAIN hot : \A c \in {0, 1} :
            LET table == close_task(hot, t, c, now)
            IN  /\ DOMAIN table = DOMAIN hot
                /\ \A u \in DOMAIN hot : u # t => table[u] = hot[u]
                /\ DOMAIN table[t] = DOMAIN hot[t] \cup {"closed", "completed"}
                /\ table[t].closed = now
                /\ table[t].completed = c
                /\ \A f \in DOMAIN hot[t] \ {"closed", "completed"} : table[t][f] = hot[t][f]
       /\ \A t \in DOMAIN hot \cap DOMAIN hot' :
            (IsClosed(hot'[t]) /\ ~IsClosed(hot[t])) =>
                \E c \in {0, 1} :
                    /\ hot'[t] = SetAttrs(hot[t], [closed |-> now, completed |-> c])
                    /\ \A u \in DOMAIN hot : u # t => u \in DOMAIN hot' /\ hot'[u] = hot[u]
      ]_vars

\* A worker has closed the task of its invocation as completed, and the
\* task has the greenfield and the attempts of its lease.
C20_Witness ==
    \E t \in DOMAIN hot :
        /\ IsClosed(hot[t])
        /\ hot[t].completed = 1
        /\ worker_calls[t] > 0
        /\ hot[t].attempts = 1
        /\ hot[t].greenfield >= Instants[1] + greenfield_invocation_delta

\* The call of orchestrator o holds a fetched task that belongs to another
\* labourer than the one the call was made for.
WrongLabourer(o) ==
    /\ call[o].task # NoTask
    /\ call[o].labourer # call[o].task.labourer_id

\* C21: invoke_task with a Labourer whose id differs from the fetched task's
\* labourer_id fails with an error to the caller: the row of the task is
\* unchanged, the worker is not invoked and the skip counter is not
\* incremented.
C21_WrongLabourerFailsFast ==
    [][\A o \in Orchestrators :
          (MarkStep(o) /\ WrongLabourer(o)) =>
              /\ pc'[o] = "idle"
              /\ outcome'[o] = "error"
              /\ hot' = hot
              /\ hot[call[o].task_id] = call[o].task
              /\ worker_calls' = worker_calls
              /\ leases' = leases
              /\ skipped' = skipped
      ]_vars

\* A call made with the wrong labourer has returned with the error.
C21_Witness ==
    \E o \in Orchestrators :
        /\ WrongLabourer(o)
        /\ pc[o] = "idle"
        /\ outcome[o] = "error"
        /\ skipped[o] = call[o].skipped_before
        /\ hot[call[o].task_id] = call[o].task

\* C22: when invoke_task failed with a dependency failure and is attempted
\* again with the same Labourer snapshot and task id, and no dependency
\* fails in the second attempt, the second attempt ends with the worker
\* invoked, and over both attempts the worker was invoked exactly once and
\* attempts went up by exactly 1.
C22_RetryInvokesOnce ==
    \A o \in Orchestrators :
        (/\ pc[o] = "idle"
         /\ call[o].retried
         /\ outcome[o] \in {"invoked", "skipped"}
         /\ call[o].task # NoTask
         /\ call[o].labourer = call[o].task.labourer_id
         /\ call[o].task_id \in DOMAIN hot) =>
            /\ outcome[o] = "invoked"
            /\ worker_calls[call[o].task_id] = call[o].invoked_before + 1
            /\ hot[call[o].task_id].attempts = call[o].attempts_before + 1

\* process_expired_task is about to retry the first task of the list.
RetryDue ==
    /\ scav_pc = "process"
    /\ scav_todo # <<>>
    /\ should_retry_task(Head(scav_todo), scav_labs[Head(scav_left)])

RetryLabourer == scav_labs[Head(scav_left)]

RetryResult(delay) ==
    calculate_greenfield_for_retry_task_with_delay(hot, RetryLabourer, delay, now)

\* The queued tasks of the labourer of the retry and their number.
RetryQueued == QueuedOf(RetryLabourer)

\* The desired wait fits into the expected time of the queue.
FitsQueue(wait) ==
    wait <= Cardinality(RetryQueued) * RetryLabourer.average_duration

\* p is ceil(wait / average_duration).
IsCeilOf(p, wait) ==
    /\ p * RetryLabourer.average_duration >= wait
    /\ (p - 1) * RetryLabourer.average_duration < wait

\* g is the greenfield at 1-based position p of the ascending queued order.
IsGreenfieldAt(g, p) ==
    \E u \in RetryQueued :
        /\ hot[u].greenfield = g
        /\ Cardinality({v \in RetryQueued : hot[v].greenfield < g}) < p
        /\ p <= Cardinality({v \in RetryQueued : hot[v].greenfield <= g})

\* C23: with no queued task of the labourer the retry greenfield is exactly
\* now + max_duration * delay, for every delay.
C23_EmptyQueueSchedulesByTime ==
    (RetryDue /\ RetryQueued = {}) =>
        \A delay \in 0..MaxDelay :
            RetryResult(delay) = [raised |-> "none", greenfield |-> now + duration * delay]

C25_FallsBackToTime ==
    RetryDue =>
        \A delay \in 0..MaxDelay :
            (/\ FitsQueue(duration * delay)
             /\ \A p \in 0..Cardinality(Tasks) :
                    IsCeilOf(p, duration * delay) => p \notin 1..Cardinality(RetryQueued)) =>
                RetryResult(delay) = [raised |-> "none", greenfield |-> now + duration * delay]

\* The sweep ends after its last labourer.
SweepEnds ==
    /\ scav_pc = "archive"
    /\ scav_todo = <<>>
    /\ scav_pc' = "idle"

\* C26: a sweep calls handle_expired_tasks_for_labourer and
\* archive_closed_tasks_for_labourer exactly once for each labourer that
\* register_labourers returned: never twice in a sweep, the archive call
\* never before the handle call, and both made for every labourer when the
\* sweep ends after its last labourer.
C26_OncePerLabourer ==
    [][/\ \A l \in Labourers :
            /\ scav_calls'.handle_expired[l] <= 1
            /\ scav_calls'.archive_closed[l] <= scav_calls'.handle_expired[l]
       /\ SweepEnds =>
            \A l \in DOMAIN scav_labs :
                /\ scav_calls'.handle_expired[l] = 1
                /\ scav_calls'.archive_closed[l] = 1
      ]_vars

\* A sweep has made both calls for every registered labourer and has ended.
C26_Witness ==
    /\ scav_pc = "idle"
    /\ \A l \in DOMAIN scav_labs :
            /\ scav_calls.handle_expired[l] = 1
            /\ scav_calls.archive_closed[l] = 1

\* A step of the sweep while it is at a labourer.
ScavStep ==
    /\ scav_pc # "idle"
    /\ scav_vars' # scav_vars

TodoIds(todo) == {todo[i].task_id : i \in 1..Len(todo)}

\* C27: scavenging labourer L touches only the tasks of L: the expired and
\* the closed tasks are queried for L and each returned task is in the list
\* once, every write goes to the first task of the list, which then leaves
\* the list, and the rows of every other labourer in both tables stay as
\* they are.
C27_OnlyOwnTasks ==
    [][ScavStep =>
          LET l == Head(scav_left)
          IN  /\ \A t \in DOMAIN hot :
                    hot[t].labourer_id # l => t \in DOMAIN hot' /\ hot'[t] = hot[t]
              /\ \A t \in DOMAIN archive : t \in DOMAIN archive' /\
                    (archive[t].labourer_id # l => archive'[t] = archive[t])
              /\ \A t \in DOMAIN archive' \ DOMAIN archive : archive'[t].labourer_id = l
              /\ scav_pc' # "idle" =>
                    \A i \in 1..Len(scav_todo') : scav_todo'[i].labourer_id = l
              /\ scav_pc = "handle" =>
                    /\ TodoIds(scav_todo') = get_expired_tasks_for_labourer(hot, scav_labs[l])
                    /\ Len(scav_todo') = Cardinality(TodoIds(scav_todo'))
              /\ (scav_pc = "process" /\ scav_pc' = "archive") =>
                    /\ TodoIds(scav_todo') = get_closed_tasks_for_labourer(hot, scav_labs[l])
                    /\ Len(scav_todo') = Cardinality(TodoIds(scav_todo'))
              /\ (hot' # hot \/ archive' # archive) =>
                    /\ scav_todo # <<>>
                    /\ \A t \in DOMAIN hot :
                          t # Head(scav_todo).task_id => t \in DOMAIN hot' /\ hot'[t] = hot[t]
                    /\ hot' # hot => scav_todo' = Tail(scav_todo)
      ]_vars

\* The sweep has handled the expired tasks of w1 while the task of w2 is
\* expired and not closed.
C27_Witness ==
    /\ scav_pc = "process"
    /\ scav_left # <<>>
    /\ Head(scav_left) = "w1"
    /\ scav_calls.handle_expired["w1"] = 1
    /\ "t3" \in get_expired_tasks_for_labourer(hot, scav_labs["w2"])

\* C28: when get_and_lock_queue_file is called with the remote queue file
\* in S3 and no local queue file, it returns with the rows of the remote
\* file in the local file, the locked_ key in S3 and the remote queue key
\* gone.
C28_LockMovesQueueFile ==
    \A s \in Schedulers :
        (/\ sched_pc[s] = "locked"
         /\ sched_call[s].queue.exists
         /\ ~sched_call[s].local.exists) =>
            /\ local[s] = sched_call[s].queue
            /\ _remote_queue_locked_file \in DOMAIN s3
            /\ _remote_queue_file \notin DOMAIN s3

\* get_and_lock_queue_file has returned from a call that found the remote
\* queue file and no local file.
C28_Witness ==
    /\ sched_pc["s1"] = "locked"
    /\ sched_call["s1"].queue = File(QueueRows)
    /\ ~sched_call["s1"].local.exists
    /\ local["s1"] = File(QueueRows)
    /\ S3Get(s3, _remote_queue_locked_file) = File(QueueRows)

\* C29: after upload_and_unlock_queue_file with rows left in the local
\* queue file, the remote queue key holds those rows and the locked_ key
\* does not exist, whether a locked_ copy existed before the call or not.
C29_UnlockUploadsRowsLeft ==
    \A s \in Schedulers :
        (sched_pc[s] = "unlocked" /\ sched_call[s].left.exists) =>
            /\ S3Get(s3, _remote_queue_file) = sched_call[s].left
            /\ _remote_queue_locked_file \notin DOMAIN s3

\* A run that was cut short after its first row has uploaded the row left
\* and removed the locked_ copy it had made.
C29_Witness ==
    /\ sched_pc["s1"] = "unlocked"
    /\ sched_call["s1"].had_locked
    /\ sched_call["s1"].left = File(Tail(QueueRows))
    /\ created["s1"] = {Head(QueueRows)}
    /\ S3Get(s3, _remote_queue_file) = File(Tail(QueueRows))

\* C30: the locked_ queue file excludes concurrent schedulers: no row is
\* passed to create_task by two schedulers, and no scheduler fails with a
\* store error that nothing catches.
C30_LockedFileExcludes ==
    \A a, b \in Schedulers :
        a # b =>
            /\ created[a] \cap created[b] = {}
            /\ sched_pc[a] # "ClientError"

\* The call of orchestrator o was made with the task and no task id.
CalledByTask(o) ==
    /\ call[o].arg_task # NoTask
    /\ call[o].task_id = "none"

\* C31: invoke_task(labourer, task=T) does at mark_task_invoked what
\* invoke_task(labourer, task_id=T's id) does: the same write to the table,
\* the same skip count and the same way on, to the invocation of the worker
\* when the lease is taken.
C31_TaskArgumentAsTaskId ==
    [][\A o \in Orchestrators :
          (MarkStep(o) /\ CalledByTask(o)) =>
              LET T == call[o].arg_task
                  r == mark_task_invoked(hot, labs[o][call[o].labourer],
                                         get_task_by_id(hot, T.task_id), now)
                  h == InvokeHandler(r.raised)
              IN  /\ hot' = r.table
                  /\ pc'[o] = IF h = "invoke" THEN "invoke" ELSE "idle"
                  /\ outcome'[o] = IF h = "invoke" THEN "none" ELSE h
                  /\ skipped'[o] = IF h = "skipped" THEN skipped[o] + 1 ELSE skipped[o]
      ]_vars

\* The rows of a file, none for a missing file.
RowsIn(file) == SeqRange(file.rows)

\* C32: no row is lost by a run of process_file: when the run ends, every
\* row that was in the remote queue file or in the local queue file when
\* the run began was passed to create_task or is in the remote queue file.
C32_NoRowLost ==
    \A s \in Schedulers :
        sched_pc[s] = "unlocked" =>
            \A r \in RowsIn(sched_call[s].queue) \cup RowsIn(sched_call[s].local) :
                \/ r \in created[s]
                \/ r \in RowsIn(S3Get(s3, _remote_queue_file))

\* The run of process_file of scheduler s took the lock: it copied the
\* remote queue file, or uploaded its local file, to the locked_ key.
TookLock(s) == sched_call[s].queue.exists \/ sched_call[s].local.exists

\* C33: when a run of process_file that took the lock has ended, by its
\* return or by an exception of create_task, the locked_ key is not in S3
\* and the rows left unprocessed are the remote queue file.
C33_LockReleased ==
    \A s \in Schedulers :
        (sched_pc[s] \in {"unlocked", "TaskError"} /\ TookLock(s)) =>
            /\ _remote_queue_locked_file \notin DOMAIN s3
            /\ local[s].exists => S3Get(s3, _remote_queue_file) = local[s]

\* The task has a lease that was written less than duration + cooldown
\* seconds ago, and is not closed.
LeasedLately(t) ==
    /\ t \in DOMAIN hot
    /\ "closed" \notin DOMAIN hot[t]
    /\ hot[t].greenfield - greenfield_invocation_delta <= now
    /\ hot[t].greenfield - greenfield_invocation_delta > now - (duration + cooldown)

\* C34: for every Labourer snapshot an orchestrator holds, every task of the
\* labourer that is leased, not closed and was leased less than
\* duration + cooldown seconds ago is counted by
\* calculate_count_of_running_tasks_for_labourer: without its row the count
\* is one less.
C34_CountsEveryLeasedTask ==
    \A o \in Orchestrators : \A l \in Labourers : \A t \in Tasks :
        (LeasedLately(t) /\ hot[t].labourer_id = l) =>
            calculate_count_of_running_tasks_for_labourer(hot, labs[o][l])
                = calculate_count_of_running_tasks_for_labourer(RemoveRow(hot, t), labs[o][l]) + 1

====
